---- MODULE Spec2Model ----
(***************************************************************************)
(* Bond valuation helpers of AdvancedFixedIncome.py: zero-coupon           *)
(* discounting, simple/compounded rate conversion, coupon-bond pricing     *)
(* from a zero curve or from a flat yield, Macaulay and modified duration. *)
(*                                                                         *)
(* Every number of the program is an IEEE-754 binary64 value.  The model   *)
(* keeps that arithmetic: a double is a sign, a 53-bit significand (held   *)
(* as a multi-limb natural, TLC integers being 32 bits wide) and a binary  *)
(* exponent, and + - * / round to nearest-even after every operation.      *)
(* Infinities and NaN are values (a record with an empty significand);     *)
(* zero carries no sign, which no result of the program other than a       *)
(* zero's own sign depends on.  exp and ** overflow to inf, where ** of    *)
(* Python floats raises OverflowError instead, and underflow to the        *)
(* subnormal grid and to 0; + - * / stay far from overflow and underflow   *)
(* on the inputs, where neither is represented.                            *)
(*                                                                         *)
(* exp and pow are library calls whose last bit differs between builds:    *)
(* they are evaluated in 90-bit fixed point (the logarithm of a base next  *)
(* to 1 scaled up to keep 90 significant bits) and answer with either of   *)
(* the two doubles that enclose the value (the one double when the value   *)
(* is representable or within 2^-ExactBits ulp of it).  A function that       *)
(* reaches them is therefore the set of outcomes its call may have, and a  *)
(* call takes one of them.                                                 *)
(*                                                                         *)
(* The entries of a bond and of a curve are numpy floats (x/0 is inf or    *)
(* nan, Series.sum() skips nan); the arguments of the rate conversions and *)
(* of pv_simple are Python floats (x/0 and 0**negative raise, a negative   *)
(* base to a fractional power is a complex number).                        *)
(*                                                                         *)
(* Intermediate results are handed on as operator arguments rather than    *)
(* LET names, so that each is written, and evaluated, once.                *)
(***************************************************************************)
EXTENDS Integers, Sequences, FiniteSets, TLC

(* ---- multi-limb naturals: little-endian limbs of LimbBits bits, no leading zero limb ---- *)
LimbBits == 15
LimbBase == 32768

BLimb(a, i) == IF i >= 1 /\ i <= Len(a) THEN a[i] ELSE 0
BMaxLen(a, b) == IF Len(a) >= Len(b) THEN Len(a) ELSE Len(b)

\* index of the highest non-zero limb, 0 when there is none
BTopIndex(a) ==
    CHOOSE i \in 0..Len(a) : (i = 0 \/ a[i] # 0) /\ \A k \in (i + 1)..Len(a) : a[k] = 0
\* a without leading zero limbs
BNorm(a) == SubSeq(a, 1, BTopIndex(a))

RECURSIVE BFromInt(_)
BFromInt(k) == IF k = 0 THEN <<>> ELSE <<k % LimbBase>> \o BFromInt(k \div LimbBase)

RECURSIVE BToInt(_)
BToInt(a) == IF a = <<>> THEN 0 ELSE a[1] + LimbBase * BToInt(Tail(a))

BLimbSum(a, b, i) == BLimb(a, i) + BLimb(b, i)
\* the carry into limb i: decided by the nearest lower limb whose sum is not LimbBase - 1
BCarry(a, b, i) ==
    IF i = 1 THEN 0
    ELSE IF BLimbSum(a, b, i - 1) >= LimbBase THEN 1
    ELSE IF BLimbSum(a, b, i - 1) < LimbBase - 1 THEN 0
    ELSE IF \E j \in 1..(i - 2) : /\ BLimbSum(a, b, j) >= LimbBase
                                  /\ \A k \in (j + 1)..(i - 2) : BLimbSum(a, b, k) = LimbBase - 1
    THEN 1 ELSE 0
BAdd(a, b) ==
    IF a = <<>> THEN b
    ELSE IF b = <<>> THEN a
    ELSE [i \in 1..BMaxLen(a, b) |-> (BLimbSum(a, b, i) + BCarry(a, b, i)) % LimbBase]
         \o (IF BCarry(a, b, BMaxLen(a, b) + 1) = 1 THEN <<1>> ELSE <<>>)

BLimbDiff(a, b, i) == BLimb(a, i) - BLimb(b, i)
\* the borrow from limb i: decided by the nearest lower limb where a and b differ
BBorrow(a, b, i) ==
    IF i = 1 THEN 0
    ELSE IF BLimbDiff(a, b, i - 1) < 0 THEN 1
    ELSE IF BLimbDiff(a, b, i - 1) > 0 THEN 0
    ELSE IF \E j \in 1..(i - 2) : /\ BLimbDiff(a, b, j) < 0
                                  /\ \A k \in (j + 1)..(i - 2) : BLimbDiff(a, b, k) = 0
    THEN 1 ELSE 0
\* a - b for a >= b
BSub(a, b) ==
    IF a = b THEN <<>>
    ELSE BNorm([i \in 1..Len(a) |->
                    (BLimbDiff(a, b, i) - BBorrow(a, b, i) + LimbBase) % LimbBase]
               \o <<>>)

BCmpLimb(a, b, i) == IF a[i] < b[i] THEN -1 ELSE 1
\* -1, 0, 1 as a < b, a = b, a > b: the highest limb that differs decides
BCmp(a, b) ==
    IF Len(a) < Len(b) THEN -1
    ELSE IF Len(a) > Len(b) THEN 1
    ELSE IF a = b THEN 0
    ELSE BCmpLimb(a, b, CHOOSE i \in 1..Len(a) :
                            a[i] # b[i] /\ \A k \in (i + 1)..Len(a) : a[k] = b[k])

\* a * k for 0 <= k <= LimbBase: the low halves of the limb products plus the
\* high halves one limb up
BMulSmall(a, k) ==
    IF a = <<>> THEN a
    ELSE BNorm(BAdd([i \in 1..Len(a) |-> (a[i] * k) % LimbBase],
                    <<0>> \o [i \in 1..Len(a) |-> (a[i] * k) \div LimbBase]))

BShiftLimbs(a, n) == IF a = <<>> THEN a ELSE [i \in 1..n |-> 0] \o a

\* acc + a * (limbs j.. of b)   (Len(acc) >= 0 evaluates acc before the next limb)
RECURSIVE BMulAcc(_, _, _, _)
BMulAcc(a, b, j, acc) ==
    IF Len(acc) >= 0 /\ j <= Len(b)
    THEN BMulAcc(a, b, j + 1, BAdd(acc, BShiftLimbs(BMulSmall(a, b[j]), j - 1)))
    ELSE acc
BMul(a, b) == IF a = <<>> \/ b = <<>> THEN <<>> ELSE BMulAcc(a, b, 1, <<>>)

\* a * 2^k
BShl(a, k) ==
    IF a = <<>> THEN a ELSE BShiftLimbs(BMulSmall(a, 2 ^ (k % LimbBits)), k \div LimbBits)

\* floor(a / 2^k): limb i takes the high bits of limb i + k \div LimbBits and
\* the low bits of the limb above
BShr(a, k) ==
    IF k \div LimbBits >= Len(a) THEN <<>>
    ELSE BNorm([i \in 1..(Len(a) - k \div LimbBits) |->
                    a[i + k \div LimbBits] \div (2 ^ (k % LimbBits))
                    + (BLimb(a, i + k \div LimbBits + 1) % (2 ^ (k % LimbBits)))
                      * (2 ^ (LimbBits - (k % LimbBits)))]
               \o <<>>)

RECURSIVE BDivSmallC(_, _, _, _, _)
\* a \div k, limb i downwards: r the running remainder, q the quotient limbs so far
\* (Len(q) >= 0 evaluates q, and with it r, before the next limb)
BDivSmallC(a, k, i, r, q) ==
    IF Len(q) >= 0 /\ i > 0
    THEN BDivSmallC(a, k, i - 1, (r * LimbBase + a[i]) % k,
                    <<(r * LimbBase + a[i]) \div k>> \o q)
    ELSE q
\* a \div k for 0 < k <= LimbBase
BDivSmall(a, k) == IF a = <<>> THEN a ELSE BNorm(BDivSmallC(a, k, Len(a), 0, <<>>))

\* number of bits of the limb d
BTopBits(d) == CHOOSE k \in 0..LimbBits : d < 2 ^ k /\ (k = 0 \/ d >= 2 ^ (k - 1))
BBitLen(a) == IF a = <<>> THEN 0 ELSE (Len(a) - 1) * LimbBits + BTopBits(a[Len(a)])

\* bit i of a (bit 0 the lowest)
BBit(a, i) == (BLimb(a, i \div LimbBits + 1) \div (2 ^ (i % LimbBits))) % 2
\* a mod 2^k # 0
BLowNonZero(a, k) ==
    \/ \E i \in 1..(k \div LimbBits) : BLimb(a, i) # 0
    \/ BLimb(a, k \div LimbBits + 1) % (2 ^ (k % LimbBits)) # 0

\* largest d <= qhat with b * d <= u  (qhat exceeds the true digit by at most 2)
RECURSIVE BFitDigit(_, _, _)
BFitDigit(u, b, d) ==
    IF d = 0 \/ BCmp(BMulSmall(b, d), u) <= 0 THEN d ELSE BFitDigit(u, b, d - 1)

\* estimate of the quotient digit u \div b from the two top limbs (b normalised)
BQHat(u, b) ==
    IF (BLimb(u, Len(b) + 1) * LimbBase + BLimb(u, Len(b))) \div b[Len(b)] > LimbBase - 1
    THEN LimbBase - 1
    ELSE (BLimb(u, Len(b) + 1) * LimbBase + BLimb(u, Len(b))) \div b[Len(b)]

\* schoolbook long division, one limb of a at a time, limb i downwards; q the
\* quotient limbs so far, r the running remainder (b normalised: top limb >=
\* LimbBase/2).  Len(q) + Len(r) >= 0 evaluates both before the next limb.
RECURSIVE BDivModAt(_, _, _, _, _)
RECURSIVE BDivModDigit(_, _, _, _, _, _)
RECURSIVE BDivModLimb(_, _, _, _, _)
BDivModAt(a, b, i, q, r) ==
    IF Len(q) + Len(r) >= 0 /\ i > 0
    THEN BDivModLimb(a, b, i, q, BNorm(<<a[i]>> \o r))
    ELSE [q |-> q, r |-> r]
BDivModLimb(a, b, i, q, u) == BDivModDigit(a, b, i, q, u, BFitDigit(u, b, BQHat(u, b)))
BDivModDigit(a, b, i, q, u, d) == BDivModAt(a, b, i - 1, <<d>> \o q, BSub(u, BMulSmall(b, d)))

\* the top Len(b) - 1 limbs of a are below b: they start the remainder
BDivModFrom(a, b) ==
    IF Len(a) < Len(b) THEN [q |-> <<>>, r |-> a]
    ELSE BDivModAt(a, b, Len(a) - Len(b) + 1, <<>>,
                   BNorm(SubSeq(a, Len(a) - Len(b) + 2, Len(a))))
BDivModUnshift(res, sh) == [q |-> BNorm(res.q), r |-> BShr(res.r, sh)]
BDivModShift(a, b, sh) == BDivModUnshift(BDivModFrom(BShl(a, sh), BShl(b, sh)), sh)
\* quotient q and remainder r of a by b, b # 0
BDivMod(a, b) ==
    IF BCmp(a, b) < 0 THEN [q |-> <<>>, r |-> a]
    ELSE BDivModShift(a, b, LimbBits - BTopBits(b[Len(b)]))

(* ---- binary64 ("float") arithmetic: value = (-1)^s * m * 2^e, m = 0 or 2^52 <= m < 2^53 ---- *)
MantBits == 53
FZero == [s |-> 0, m |-> <<>>, e |-> 0]
\* the values that are no finite number have no significand either: e = 1 is an
\* infinity of sign s, e = 2 is NaN
FInf(s) == [s |-> s, m |-> <<>>, e |-> 1]
FNaN == [s |-> 0, m |-> <<>>, e |-> 2]
FIsZero(a) == a.m = <<>> /\ a.e = 0
FIsInf(a) == a.m = <<>> /\ a.e = 1
FIsNaN(a) == a.m = <<>> /\ a.e = 2

\* q * 2^e after a round-up, renormalised when the carry made q 54 bits long
Renorm(s, q, e) ==
    IF BBitLen(q) > MantBits THEN [s |-> s, m |-> BShr(q, 1), e |-> e + 1]
    ELSE [s |-> s, m |-> q, e |-> e]
\* nearest-even: up when the dropped part exceeds a half, or is a half and q is odd
RoundUp(s, q, e, half, rest) ==
    IF half /\ (rest \/ BBit(q, 0) = 1) THEN Renorm(s, BAdd(q, <<1>>), e)
    ELSE [s |-> s, m |-> q, e |-> e]
\* m has k bits more than a significand
RoundTo(s, m, e, sticky, k) ==
    IF k <= 0 THEN [s |-> s, m |-> BShl(m, -k), e |-> e + k]
    ELSE RoundUp(s, BShr(m, k), e + k, BBit(m, k - 1) = 1, sticky \/ BLowNonZero(m, k - 1))
\* round-to-nearest-even of (-1)^s * (m + tail) * 2^e to 53 bits; sticky says 0 < tail < 1
RoundPack(s, m, e, sticky) ==
    IF m = <<>> THEN FZero ELSE RoundTo(s, m, e, sticky, BBitLen(m) - MantBits)

FromInt(k) == IF k >= 0 THEN RoundPack(0, BFromInt(k), 0, FALSE)
              ELSE RoundPack(1, BFromInt(-k), 0, FALSE)
One == FromInt(1)

FNeg(a) ==
    IF a.m # <<>> \/ FIsInf(a) THEN [a EXCEPT !.s = 1 - a.s] ELSE a

\* a product with a zero, an infinity or NaN among its factors: inf * 0 = nan
FMulSpecial(a, b) ==
    IF FIsNaN(a) \/ FIsNaN(b) THEN FNaN
    ELSE IF FIsInf(a) \/ FIsInf(b)
    THEN (IF FIsZero(a) \/ FIsZero(b) THEN FNaN ELSE FInf((a.s + b.s) % 2))
    ELSE FZero
FMul(a, b) ==
    IF a.m # <<>> /\ b.m # <<>>
    THEN RoundPack((a.s + b.s) % 2, BMul(a.m, b.m), a.e + b.e, FALSE)
    ELSE FMulSpecial(a, b)

FDivRound(s, e, dm) == RoundPack(s, dm.q, e, dm.r # <<>>)
\* a quotient with a zero, an infinity or NaN in it: x/0 = +-inf, 0/0 = inf/inf = nan
FDivSpecial(a, b) ==
    IF FIsNaN(a) \/ FIsNaN(b) THEN FNaN
    ELSE IF FIsInf(a) THEN (IF FIsInf(b) THEN FNaN ELSE FInf((a.s + b.s) % 2))
    ELSE IF FIsInf(b) THEN FZero
    ELSE IF FIsZero(a) THEN (IF FIsZero(b) THEN FNaN ELSE FZero)
    ELSE FInf(a.s)
\* a / b as numpy divides (no exception): 64 extra quotient bits, the remainder as sticky bit
FDiv(a, b) ==
    IF a.m # <<>> /\ b.m # <<>>
    THEN FDivRound(IF a.s = b.s THEN 0 ELSE 1, a.e - b.e - 64, BDivMod(BShl(a.m, 64), b.m))
    ELSE FDivSpecial(a, b)

\* sum of (-1)^sa * ma * 2^e and (-1)^sb * mb * 2^e, c = BCmp(ma, mb)
FAddMag(sa, sb, ma, mb, e, c) ==
    RoundPack(IF sa = sb \/ c > 0 THEN sa ELSE sb,
              IF sa = sb THEN BAdd(ma, mb) ELSE IF c > 0 THEN BSub(ma, mb) ELSE BSub(mb, ma),
              e, FALSE)
FAddAligned(sa, sb, ma, mb, e) == FAddMag(sa, sb, ma, mb, e, BCmp(ma, mb))
FAddAt(a, b, e) == FAddAligned(a.s, b.s, BShl(a.m, a.e - e), BShl(b.m, b.e - e), e)
\* a sum with a zero, an infinity or NaN among its terms: inf + -inf = nan
FAddSpecial(a, b) ==
    IF FIsNaN(a) \/ FIsNaN(b) THEN FNaN
    ELSE IF FIsInf(a) THEN (IF FIsInf(b) /\ a.s # b.s THEN FNaN ELSE a)
    ELSE IF FIsInf(b) THEN b
    ELSE IF FIsZero(a) THEN b
    ELSE a
FAdd(a, b) ==
    IF a.m # <<>> /\ b.m # <<>> THEN FAddAt(a, b, IF a.e < b.e THEN a.e ELSE b.e)
    ELSE FAddSpecial(a, b)

FSub(a, b) == FAdd(a, FNeg(b))

\* a decimal literal p/q of the source text: the nearest double
Lit(p, q) == FDiv(FromInt(p), FromInt(q))

\* Python int(x) of a finite x: truncation toward zero
int(a) ==
    (IF a.s = 1 THEN -1 ELSE 1) * BToInt(IF a.e >= 0 THEN BShl(a.m, a.e) ELSE BShr(a.m, -a.e))

RintUp(s, q, half, rest) ==
    RoundPack(s, IF half /\ (rest \/ BBit(q, 0) = 1) THEN BAdd(q, <<1>>) ELSE q, 0, FALSE)
\* nearest integer, ties to even (C rint); zero, inf and nan are their own rint
rint(a) ==
    IF a.m = <<>> \/ a.e >= 0 THEN a
    ELSE RintUp(a.s, BShr(a.m, -a.e), BBit(a.m, -a.e - 1) = 1, BLowNonZero(a.m, -a.e - 1))

Ten4 == FromInt(10000)
\* np.round(a, 4) = rint(a * 1e4) / 1e4
np_round4(a) == FDiv(rint(FMul(a, Ten4)), Ten4)

\* a is an integer / an odd integer (a finite and not zero)
IsInteger(a) == a.e >= 0 \/ ~BLowNonZero(a.m, -a.e)
IsOddInteger(a) == a.e <= 0 /\ ~BLowNonZero(a.m, -a.e) /\ BBit(a.m, -a.e) = 1
\* -1, 0, 1 as |a| < 1, |a| = 1, |a| > 1
CmpOne(a) ==
    IF a.m = <<>> THEN (IF FIsZero(a) THEN -1 ELSE 1)
    ELSE IF a.e <= -MantBits THEN -1
    ELSE IF a.e = 1 - MantBits /\ a.m = One.m THEN 0
    ELSE 1

(* ---- libm (exp, pow) ---- *)
(* The value is computed in fixed point with HPBits fractional bits.  What a  *)
(* platform's libm returns for it is one of the two doubles that enclose the   *)
(* value (which of them differs between libm builds, and need not be the       *)
(* nearer one), or the value itself when it is a double: exp and pow are sets  *)
(* of doubles, and each call is answered by one member.                        *)
HPBits == 90
ExpTerms == 12
ExpHalvings == 5
LnTerms == 20
\* a value within 2^-ExactBits of a unit in the last place of a double is that double
ExactBits == 20
HPOne == BShl(<<1>>, HPBits)
\* floor(ln(2) * 2^90)
HPLn2 == <<3790, 24143, 30618, 31289, 1533, 22713>>
HPMul(x, y) == BShr(BMul(x, y), HPBits)

\* the doubles next to (-1)^s * (q + d/2^g) * 2^e, q a significand, 0 <= d < 2^g
FaithfulPick(s, q, e, g, d) ==
    IF d = 0 THEN {[s |-> s, m |-> q, e |-> e]}
    ELSE IF g = ExactBits /\ d = 2 ^ g - 1 THEN {Renorm(s, BAdd(q, <<1>>), e)}
    ELSE {[s |-> s, m |-> q, e |-> e], Renorm(s, BAdd(q, <<1>>), e)}
\* m has k > 0 bits more than a significand; the first g of them decide
FaithfulTop(s, m, e, k, g) ==
    FaithfulPick(s, BShr(m, k), e + k, g, BToInt(BSub(BShr(m, k - g), BShl(BShr(m, k), g))))
\* the doubles libm may return for the value (-1)^s * m * 2^e, m # 0
Faithful(s, m, e) ==
    IF BBitLen(m) <= MantBits THEN {RoundPack(s, m, e, FALSE)}
    ELSE FaithfulTop(s, m, e, BBitLen(m) - MantBits,
                     IF BBitLen(m) - MantBits < ExactBits THEN BBitLen(m) - MantBits
                     ELSE ExactBits)

\* a result of 2^1024 or more is inf
MaxExponent == 1024
Overflow(p) == IF p.m # <<>> /\ p.e + MantBits > MaxExponent THEN FInf(p.s) ELSE p
\* a result under 2^-1022 is a multiple of 2^-1074
MinExponent == -1022
SubnormalExponent == -1074
\* the multiples of 2^SubnormalExponent next to (-1)^s * (q + d/2^g) * 2^SubnormalExponent
SubnormalPick(s, q, g, d) ==
    IF d = 0 THEN {RoundPack(s, q, SubnormalExponent, FALSE)}
    ELSE IF g = ExactBits /\ d = 2 ^ g - 1
    THEN {RoundPack(s, BAdd(q, <<1>>), SubnormalExponent, FALSE)}
    ELSE {RoundPack(s, q, SubnormalExponent, FALSE),
          RoundPack(s, BAdd(q, <<1>>), SubnormalExponent, FALSE)}
\* m has k > 0 bits under 2^SubnormalExponent; the first g of them decide
SubnormalTop(s, m, k, g) ==
    SubnormalPick(s, BShr(m, k), g, BToInt(BSub(BShr(m, k - g), BShl(BShr(m, k), g))))
Subnormal(s, m, e) ==
    IF e >= SubnormalExponent THEN {RoundPack(s, m, e, FALSE)}
    ELSE SubnormalTop(s, m, SubnormalExponent - e,
                      IF SubnormalExponent - e < ExactBits THEN SubnormalExponent - e
                      ELSE ExactBits)
\* the doubles libm may return for the value (-1)^s * m * 2^e, m # 0: inf past the
\* range, a subnormal or 0 under it
FaithfulInRange(s, m, e) ==
    IF e + BBitLen(m) > MinExponent THEN {Overflow(p) : p \in Faithful(s, m, e)}
    ELSE Subnormal(s, m, e)

\* Horner form of the Taylor series of exp, innermost term first:
\* acc_k = 1 + r/k * acc_(k+1), acc_(ExpTerms+1) = 1;  r >= 0
\* (Len(acc) >= 0 evaluates acc before the next step)
RECURSIVE ExpHorner(_, _, _)
ExpHorner(r, k, acc) ==
    IF Len(acc) >= 0 /\ k > 0
    THEN ExpHorner(r, k - 1, BAdd(HPOne, BDivSmall(HPMul(r, acc), k)))
    ELSE acc

RECURSIVE HPSquareN(_, _)
HPSquareN(x, n) == IF Len(x) >= 0 /\ n > 0 THEN HPSquareN(HPMul(x, x), n - 1) ELSE x

\* 2^k * e^r, 0 <= r < ln 2: e^(r/2^ExpHalvings) by the series, then squared back
ExpReduced(sign, k, r) ==
    FaithfulInRange(sign,
                    HPSquareN(ExpHorner(BShr(r, ExpHalvings), ExpTerms, HPOne), ExpHalvings),
                    k - HPBits)
\* past 2^ExpRangeBits * ln 2 either way the result is inf or 0
ExpRangeBits == 12
\* (-1)^s * v = k * ln 2 + r with dm the quotient and remainder of v by ln 2
ExpSplit(sign, s, dm) ==
    IF BBitLen(dm.q) > ExpRangeBits THEN {IF s = 0 THEN FInf(sign) ELSE FZero}
    ELSE IF dm.r = <<>> THEN ExpReduced(sign, IF s = 0 THEN BToInt(dm.q) ELSE -BToInt(dm.q), dm.r)
    ELSE IF s = 0 THEN ExpReduced(sign, BToInt(dm.q), dm.r)
    ELSE ExpReduced(sign, -(BToInt(dm.q) + 1), BSub(HPLn2, dm.r))
\* (-1)^sign * e^((-1)^s * v * 2^-HPBits) as a double
ExpHP(sign, s, v) == ExpSplit(sign, s, BDivMod(v, HPLn2))

\* fixed-point magnitude of a double (truncated below 2^-HPBits)
HPOf(a) == IF a.e + HPBits >= 0 THEN BShl(a.m, a.e + HPBits) ELSE BShr(a.m, -(a.e + HPBits))

\* np.exp(a): exp(0) = 1, exp(-inf) = 0
np_exp(a) ==
    IF a.m # <<>> THEN ExpHP(0, a.s, HPOf(a))
    ELSE IF FIsZero(a) THEN {One}
    ELSE IF FIsInf(a) /\ a.s = 1 THEN {FZero}
    ELSE {a}

\* Horner form of sum_j z2^j / (2j+1), innermost term first
RECURSIVE AtanhHorner(_, _, _)
AtanhHorner(z2, k, acc) ==
    IF Len(acc) >= 0 /\ k >= 0
    THEN AtanhHorner(z2, k - 1, BAdd(BDivSmall(HPOne, 2 * k + 1), HPMul(z2, acc)))
    ELSE acc

\* ln f = 2 atanh z for z = |f - 1| / (f + 1); z and ln f are kept times 2^sc
LnZ(f, sc) ==
    BDivMod(BShl(IF BCmp(f, HPOne) < 0 THEN BSub(HPOne, f) ELSE BSub(f, HPOne), HPBits + sc),
            BAdd(f, HPOne)).q
LnSeries(z, sc) ==
    IF z = <<>> THEN <<>>
    ELSE BMulSmall(HPMul(z, AtanhHorner(BShr(BMul(z, z), HPBits + 2 * sc), LnTerms, <<>>)), 2)
\* ln(f * 2^ex) = ex * ln 2 + ln f, le = |ex| * ln 2, lf = |ln f|, neg says f < 1
LnCombine(neg, ex, le, lf, sc) ==
    IF ex = 0 THEN [s |-> IF neg THEN 1 ELSE 0, v |-> lf, sc |-> sc]
    ELSE IF (ex > 0) = (~neg) THEN [s |-> IF neg THEN 1 ELSE 0, v |-> BAdd(le, lf), sc |-> sc]
    ELSE IF BCmp(le, lf) >= 0 THEN [s |-> IF ex > 0 THEN 0 ELSE 1, v |-> BSub(le, lf), sc |-> sc]
    ELSE [s |-> IF neg THEN 1 ELSE 0, v |-> BSub(lf, le), sc |-> sc]
LnScaled(f, ex, sc) ==
    LnCombine(BCmp(f, HPOne) < 0, ex, BMulSmall(HPLn2, IF ex >= 0 THEN ex ELSE -ex),
              LnSeries(LnZ(f, sc), sc), sc)
\* a logarithm that is ln f alone is scaled by the leading zeros of |f - 1|
LnParts(f, ex) ==
    LnScaled(f, ex, IF ex = 0 /\ f # HPOne
                    THEN HPBits - BBitLen(IF BCmp(f, HPOne) < 0 THEN BSub(HPOne, f)
                                          ELSE BSub(f, HPOne))
                    ELSE 0)
\* ln|a| for a finite and not zero, as sign and fixed-point magnitude times 2^sc:
\* |a| = f * 2^ex, 3/4 <= f < 3/2
LnHP(a) ==
    IF BBit(a.m, MantBits - 2) = 1
    THEN LnParts(BShl(a.m, HPBits - MantBits), a.e + MantBits)
    ELSE LnParts(BShl(a.m, HPBits - MantBits + 1), a.e + MantBits - 1)

\* acc * m^k
RECURSIVE BPowAcc(_, _, _)
BPowAcc(m, k, acc) == IF Len(acc) >= 0 /\ k > 0 THEN BPowAcc(m, k - 1, BMul(acc, m)) ELSE acc
\* m^k, k >= 1
BPow(m, k) == BPowAcc(m, k - 1, m)

PowExactMax == 16
\* y is one of the integers 1..PowExactMax
IsSmallPosInt(y) ==
    /\ y.m # <<>> /\ y.s = 0 /\ y.e <= 0 /\ y.e > -MantBits
    /\ ~BLowNonZero(y.m, -y.e)
    /\ BCmp(BShr(y.m, -y.e), <<PowExactMax>>) <= 0

\* (-1)^sign * e^(y * l)
PowLn(sign, y, l) ==
    ExpHP(sign, IF l.s = y.s THEN 0 ELSE 1,
          IF y.e >= l.sc THEN BShl(BMul(l.v, y.m), y.e - l.sc)
          ELSE BShr(BMul(l.v, y.m), l.sc - y.e))
\* (-1)^sign * |x| ** y for finite x and y, neither zero, |x| # 1: from the exact
\* product for a small integer exponent, from e^(y * ln|x|) otherwise
PowMag(sign, x, y) ==
    IF IsSmallPosInt(y) THEN FaithfulInRange(sign, BPow(x.m, int(y)), x.e * int(y))
    ELSE PowLn(sign, y, LnHP(x))
\* x ** y with a zero or an infinity among x and y (x # 1, y # 0, no NaN)
PowSpecial(x, y) ==
    IF FIsInf(y) THEN (IF CmpOne(x) = 0 THEN One
                       ELSE IF (CmpOne(x) > 0) = (y.s = 0) THEN FInf(0) ELSE FZero)
    ELSE IF FIsZero(x) THEN (IF y.s = 1 THEN FInf(0) ELSE FZero)
    ELSE IF y.s = 1 THEN FZero
    ELSE FInf(IF x.s = 1 /\ IsOddInteger(y) THEN 1 ELSE 0)
\* C pow(x, y), which numpy's ** is: pow(x, 0) = pow(1, y) = 1; a negative x has a
\* real power only for an integer y, negative when y is odd, and nan otherwise
pow(x, y) ==
    IF FIsZero(y) \/ x = One THEN {One}
    ELSE IF FIsNaN(x) \/ FIsNaN(y) THEN {FNaN}
    ELSE IF x.m = <<>> \/ y.m = <<>> THEN {PowSpecial(x, y)}
    ELSE IF CmpOne(x) = 0 THEN {IF IsInteger(y) THEN (IF IsOddInteger(y) THEN x ELSE One)
                                ELSE FNaN}
    ELSE IF x.s = 0 THEN PowMag(0, x, y)
    ELSE IF IsInteger(y) THEN PowMag(IF IsOddInteger(y) THEN 1 ELSE 0, x, y)
    ELSE {FNaN}

(* ---- the program ---- *)
\* pd.Series(list): the entries held as a sequence
Series(l) == l \o <<>>

\* Series.sum(): skipna is on, a NaN entry counts as 0.0 (so does a Series of nothing but
\* NaN) while an infinity is summed; left-to-right for a Series of fewer than 8 entries
\* (acc.e = acc.e evaluates acc before the next entry)
RECURSIVE SumFrom(_, _, _)
SumFrom(s, i, acc) ==
    IF acc.e = acc.e /\ i <= Len(s)
    THEN SumFrom(s, i + 1, FAdd(acc, IF FIsNaN(s[i]) THEN FZero ELSE s[i]))
    ELSE acc
Sum(s) == SumFrom(s, 1, FZero)

\* how a call ends: a returned value or a raised exception, with the locals built so far
\* (the locals first: they are built before the value that is returned)
Return(v, loc) == [tag |-> "return", loc |-> loc, val |-> v]
Raise(err, loc) == [tag |-> err, val |-> FZero, loc |-> loc]
\* a complex number is returned (a negative Python float to a power that is no integer);
\* its value is not kept
ReturnComplex(loc) == [tag |-> "complex", val |-> FNaN, loc |-> loc]

\* the sequences that take entry i from the set c[i]: every way libm may answer a
\* run of calls of which the i-th may return any member of c[i]
Answers(c) ==
    {s \in [1..Len(c) -> UNION {c[i] : i \in 1..Len(c)}] : \A i \in 1..Len(c) : s[i] \in c[i]}

\* the face value accrued at the rate rather than discounted
zc_bond_accrued(N, T, r) == FMul(N, FAdd(One, FMul(r, T)))
\* N/(1+r*T), r a numpy float: a zero divisor gives inf
zc_bond(N, T, r) == FDiv(N, FAdd(One, FMul(r, T)))

\* an infinite power of finite operands is an OverflowError
float_pow_of(x, y, p) ==
    IF FIsInf(p) /\ x.m # <<>> /\ y.m # <<>> THEN Raise("OverflowError", <<>>)
    ELSE Return(p, <<>>)
\* the complex power has the modulus |x| ** y, and an infinite one is an OverflowError
complex_pow_of(len) ==
    IF FIsInf(len) THEN Raise("OverflowError", <<>>) ELSE ReturnComplex(<<>>)
\* Python float ** : 0.0 to a negative power raises, a negative base to a power
\* that is no integer gives a complex number, anything else is C pow
float_pow(x, y) ==
    IF FIsZero(x) /\ y.m # <<>> /\ y.s = 1 THEN {Raise("ZeroDivisionError", <<>>)}
    ELSE IF x.m # <<>> /\ x.s = 1 /\ y.m # <<>> /\ ~IsInteger(y)
    THEN {complex_pow_of(len) : len \in pow(FNeg(x), y)}
    ELSE {float_pow_of(x, y, p) : p \in pow(x, y)}

\* (power - 1)*freq_per_year, power an outcome of **
simple_to_comp_of(power, freq_per_year) ==
    IF power.tag # "return" THEN power
    ELSE Return(FMul(FSub(power.val, One), freq_per_year), <<>>)
\* Python floats: 1/(t*freq_per_year) raises when t*freq_per_year is 0
simple_to_comp(simple_rate, t, freq_per_year) ==
    IF FIsZero(FMul(t, freq_per_year)) THEN {Raise("ZeroDivisionError", <<>>)}
    ELSE {simple_to_comp_of(power, freq_per_year) :
             power \in float_pow(FAdd(One, FMul(simple_rate, t)),
                                 FDiv(One, FMul(t, freq_per_year)))}

\* the compounded growth not spread over t
comp_to_simple_undivided(power, t) ==
    IF power.tag # "return" THEN power
    ELSE Return(FSub(power.val, One), <<>>)
\* (power - 1)/t, power an outcome of **: an exception of ** ends the call, and a
\* Python number (complex or not) divided by 0.0 raises
comp_to_simple_of(power, t) ==
    IF power.tag \notin {"return", "complex"} THEN power
    ELSE IF FIsZero(t) THEN Raise("ZeroDivisionError", <<>>)
    ELSE IF power.tag = "complex" THEN power
    ELSE Return(FDiv(FSub(power.val, One), t), <<>>)
\* Python floats: comp_rate/freq_per_year raises when freq_per_year is 0
comp_to_simple(comp_rate, t, freq_per_year) ==
    IF FIsZero(freq_per_year) THEN {Raise("ZeroDivisionError", <<>>)}
    ELSE {comp_to_simple_of(power, t) :
             power \in float_pow(FAdd(One, FDiv(comp_rate, freq_per_year)),
                                 FMul(t, freq_per_year))}

\* np.round(zc_bond(1, tau, r)*cf, 4); r and tau are Python floats here, and
\* 1/(1+r*tau) raises when 1+r*tau is 0
pv_simple(cf, r, tau) ==
    IF FIsZero(FAdd(One, FMul(r, tau))) THEN Raise("ZeroDivisionError", <<>>)
    ELSE Return(np_round4(FMul(zc_bond(One, tau, r), cf)), <<>>)

\* nbre_payments = int(T*freq)
nbre_payments(T, freq) == int(FMul(T, freq))
\* CFs = pd.Series([cpn_ann*N*(1/freq) for i in range(nbre_payments)])
Coupons(N, cpn_ann, freq, n) ==
    Series([i \in 1..n |-> FMul(FMul(cpn_ann, N), FDiv(One, freq))])
\* CFs.iloc[-1] += N   (CFs not empty)
AddFace(CFs, N) == [CFs EXCEPT ![Len(CFs)] = FAdd(@, N)]
\* payment times counted from zero
Timeline_from_zero(freq, n) ==
    Series([i \in 1..n |-> FMul(FromInt(i - 1), FDiv(One, freq))])
\* [(i+1)*(1/freq) for i in range(nbre_payments)]
Timeline(freq, n) == Series([i \in 1..n |-> FMul(FromInt(i), FDiv(One, freq))])

\* every present value rounded before the sum
bond_s_price_sum_of_rounded(CFs, zc_prices) ==
    Return(np_round4(Sum(Series([i \in 1..Len(CFs) |-> np_round4(FMul(CFs[i], zc_prices[i]))]))),
           [CFs |-> CFs, zc_prices |-> zc_prices])
\* np.round((CFs * zc_prices).sum(), 4)
bond_s_price_sum(CFs, zc_prices) ==
    Return(np_round4(Sum(Series([i \in 1..Len(CFs) |-> FMul(CFs[i], zc_prices[i])]))),
           [CFs |-> CFs, zc_prices |-> zc_prices])
\* zc_prices: one zc_bond per payment; zc_rates.iloc[i] past the end of the curve raises
bond_s_price_zc(zc_rates, CFs, mat) ==
    IF Len(zc_rates) < Len(CFs) THEN Raise("IndexError", [CFs |-> CFs])
    ELSE bond_s_price_sum(CFs,
             Series([i \in 1..Len(CFs) |-> zc_bond(One, mat[i], zc_rates[i])]))
\* CFs.iloc[-1] += N raises on an empty Series
bond_s_price_CFs(N, freq_per_year, zc_rates, CFs) ==
    IF CFs = <<>> THEN Raise("IndexError", [CFs |-> CFs])
    ELSE bond_s_price_zc(zc_rates, AddFace(CFs, N), Timeline(freq_per_year, Len(CFs)))
bond_s_price(N, cpn_ann, T, freq_per_year, zc_rates) ==
    bond_s_price_CFs(N, freq_per_year, zc_rates,
                     Coupons(N, cpn_ann, freq_per_year, nbre_payments(T, freq_per_year)))

\* the entries of the bond come back from the Series as numpy floats
create_bond(N, T, cpn_ann, freq_per_year) ==
    [Nominal |-> N, Tenor |-> T, AnnualCoupon |-> cpn_ann, PaymentsFrequency |-> freq_per_year]

\* (1+yc/freq)**(tl*freq): for each payment the doubles pow may return
bond_c_price_pow(freq, yc, tl) ==
    Series([i \in 1..Len(tl) |-> pow(FAdd(One, FDiv(yc, freq)), FMul(tl[i], freq))])
\* (CFs/powers).sum()
bond_c_price_return(CFs, tl, powers) ==
    Return(Sum(Series([i \in 1..Len(CFs) |-> FDiv(CFs[i], powers[i])])),
           [CFs |-> CFs, tl |-> tl])
\* (CFs/((1+yc/freq)**(tl*freq))).sum(), for every way pow may answer
bond_c_price_sum(freq, yc, CFs, tl) ==
    {bond_c_price_return(CFs, tl, powers) : powers \in Answers(bond_c_price_pow(freq, yc, tl))}
bond_c_price_CFs(N, freq, yc, CFs) ==
    IF CFs = <<>> THEN {Raise("IndexError", [CFs |-> CFs])}
    ELSE bond_c_price_sum(freq, yc, AddFace(CFs, N), Timeline(freq, Len(CFs)))
\* the outcomes bond_c_price(bond, yc) may have
bond_c_price(bond, yc) ==
    bond_c_price_CFs(bond.Nominal, bond.PaymentsFrequency, yc,
                     Coupons(bond.Nominal, bond.AnnualCoupon, bond.PaymentsFrequency,
                             nbre_payments(bond.Tenor, bond.PaymentsFrequency)))

\* weights that grow with exp(+yc*t)
macaulay_duration_exp_growing(yc, tl) ==
    Series([i \in 1..Len(tl) |-> np_exp(FMul(yc, tl[i]))])
\* np.exp(-yc*tl): for each payment the doubles exp may return
macaulay_duration_exp(yc, tl) ==
    Series([i \in 1..Len(tl) |-> np_exp(FMul(FNeg(yc), tl[i]))])
\* num = tl*np.exp(-yc*tl)*CFs, for every way exp may answer
macaulay_duration_num(yc, CFs, tl) ==
    {Series([i \in 1..Len(CFs) |-> FMul(FMul(tl[i], exps[i]), CFs[i])]) :
        exps \in Answers(macaulay_duration_exp(yc, tl))}
\* np.round((num/den).sum(), 4), den an outcome of bond_c_price(bond, yc)
macaulay_duration_round(CFs, tl, num, den) ==
    IF den.tag # "return" THEN Raise(den.tag, [CFs |-> CFs, tl |-> tl])
    ELSE Return(np_round4(Sum(Series([i \in 1..Len(num) |-> FDiv(num[i], den.val)]))),
                [CFs |-> CFs, tl |-> tl, num |-> num, den |-> den.val])
macaulay_duration_sum(CFs, tl, nums, dens) ==
    {macaulay_duration_round(CFs, tl, num, den) : num \in nums, den \in dens}
macaulay_duration_CFs(bond, yc, CFs) ==
    IF CFs = <<>> THEN {Raise("IndexError", [CFs |-> CFs])}
    ELSE macaulay_duration_sum(AddFace(CFs, bond.Nominal),
                               Timeline(bond.PaymentsFrequency, Len(CFs)),
                               macaulay_duration_num(yc, AddFace(CFs, bond.Nominal),
                                                     Timeline(bond.PaymentsFrequency, Len(CFs))),
                               bond_c_price(bond, yc))
\* the outcomes macaulay_duration(bond, yc) may have
macaulay_duration(bond, yc) ==
    macaulay_duration_CFs(bond, yc,
                          Coupons(bond.Nominal, bond.AnnualCoupon, bond.PaymentsFrequency,
                                  nbre_payments(bond.Tenor, bond.PaymentsFrequency)))

\* the duration multiplied by 1 + yc/freq
modified_macaulay_duration_times(mac, d) ==
    IF mac.tag # "return" THEN mac
    ELSE Return(np_round4(FMul(mac.val, d)), [macaulay_duration |-> mac.val])
\* np.round(mac/(1+(yc/freq)), 4), mac an outcome of macaulay_duration(bond, yc)
modified_macaulay_duration_of(mac, d) ==
    IF mac.tag # "return" THEN mac
    ELSE Return(np_round4(FDiv(mac.val, d)), [macaulay_duration |-> mac.val])
\* the outcomes modified_macaulay_duration(bond, yc) may have
modified_macaulay_duration(bond, yc) ==
    {modified_macaulay_duration_of(mac, FAdd(One, FDiv(yc, bond.PaymentsFrequency))) :
        mac \in macaulay_duration(bond, yc)}

\* the three entries of stats, evaluated in order; the first exception ends the call
bond_stats_of(price, mac, mod) ==
    IF price.tag # "return" THEN price
    ELSE IF mac.tag # "return" THEN mac
    ELSE IF mod.tag # "return" THEN mod
    ELSE Return(price.val, [Price |-> price.val, MacaulayDuration |-> mac.val,
                            ModifiedMacaulay |-> mod.val])
\* libm answers a call the same way each time it is made within one run: the duration
\* comes from the price that is reported, the modified duration from that duration
bond_stats_mac(price, macs, d) ==
    {bond_stats_of(price, mac, modified_macaulay_duration_of(mac, d)) :
        mac \in {m \in macs : m.tag = "return" => m.loc.den = price.val}}
bond_stats_price(prices, macs, d) ==
    UNION {bond_stats_mac(price, macs, d) : price \in prices}
\* the outcomes bond_stats(bond, yc) may have
bond_stats(bond, yc) ==
    bond_stats_price(bond_c_price(bond, yc), macaulay_duration(bond, yc),
                     FAdd(One, FDiv(yc, bond.PaymentsFrequency)))

(* ---- calls: every function is pure, so a run is one call (or a conversion and its inverse) ---- *)
VARIABLES call, out
vars == <<call, out>>

\* a decimal literal <<p, q>> of the caller, p/q
Dec(d) == Lit(d[1], d[2])

MaxHalfPeriods == 5
MaxCurveLen == 2
Freqs == {1, 6}
Compoundings == {1, 12, 365}
CouponRates == {<<0, 1>>, <<6, 100>>}
Yields == {<<-3, 1>>, <<1, 1000000>>, <<5, 100>>}
ZcRates == {<<5, 100>>, <<55, 1000>>, <<-1, 1>>}
SimpleRates == {<<-3, 1>>, <<-1, 2>>, <<-2, 100>>, <<5, 100>>, <<1, 1>>, <<10000000, 1>>}
Horizons == {<<1, 1000000000>>, <<1, 12>>, <<1, 1>>, <<2, 1>>, <<30, 1>>}
CashFlows == {<<6, 1>>, <<106, 1>>}

\* bonds with positive face, tenor and frequency: tenor*freq = k/2
PositiveBonds ==
    {[N |-> <<100, 1>>, T |-> <<k, 2 * f>>, cpn |-> c, freq |-> <<f, 1>>] :
        k \in 1..MaxHalfPeriods, f \in Freqs, c \in CouponRates}
\* bonds with some non-positive term
DegenerateBonds ==
    {[N |-> <<n, 1>>, T |-> <<k, 2>>, cpn |-> <<6, 100>>, freq |-> <<f, 1>>] :
        n \in {-100, 0, 100}, k \in {-2, 0, 2}, f \in {-1, 0, 1}} \ PositiveBonds
\* a tenor that is no binary fraction: 3 payments, the last at 3*(1/10), the double above 0.3
InexactBonds == {[N |-> <<100, 1>>, T |-> <<3, 10>>, cpn |-> <<6, 100>>, freq |-> <<10, 1>>]}
\* two half-yearly payments
SemiAnnualBonds == {[N |-> <<100, 1>>, T |-> <<1, 1>>, cpn |-> <<6, 100>>, freq |-> <<2, 1>>]}
Bonds == PositiveBonds \cup DegenerateBonds \cup InexactBonds \cup SemiAnnualBonds
Curves == UNION {[1..l -> ZcRates] : l \in 0..MaxCurveLen}

BondOf(b) == create_bond(Dec(b.N), Dec(b.T), Dec(b.cpn), Dec(b.freq))
CurveOf(z) == [i \in 1..Len(z) |-> Dec(z[i])]

Idle == call.fn = "none"

Init == call = [fn |-> "none"] /\ out = [tag |-> "none"]

CallSimpleToComp ==
    /\ Idle
    /\ \E r \in SimpleRates, t \in Horizons, f \in Compoundings :
          /\ call' = [fn |-> "simple_to_comp", r |-> r, t |-> t, freq |-> <<f, 1>>]
          /\ out' \in simple_to_comp(Dec(r), Dec(t), FromInt(f))

\* the compounded rate just returned is converted back with the same (t, freq)
CallCompToSimple ==
    /\ call.fn = "simple_to_comp"
    /\ out.tag = "return"
    /\ call' = [call EXCEPT !.fn = "comp_to_simple"]
    /\ out' \in comp_to_simple(out.val, Dec(call.t), Dec(call.freq))

CallPvSimple ==
    /\ Idle
    /\ \E cf \in CashFlows, r \in ZcRates, tau \in Horizons :
          /\ call' = [fn |-> "pv_simple", cf |-> cf, r |-> r, tau |-> tau]
          /\ out' = pv_simple(Dec(cf), Dec(r), Dec(tau))

CallBondSPrice ==
    /\ Idle
    /\ \E b \in Bonds, z \in Curves :
          /\ call' = [fn |-> "bond_s_price", bond |-> b, zc_rates |-> z]
          /\ out' = bond_s_price(Dec(b.N), Dec(b.cpn), Dec(b.T), Dec(b.freq), CurveOf(z))

CallBondCPrice ==
    /\ Idle
    /\ \E b \in Bonds, y \in Yields :
          /\ call' = [fn |-> "bond_c_price", bond |-> b, yc |-> y]
          /\ out' \in bond_c_price(BondOf(b), Dec(y))

CallMacaulayDuration ==
    /\ Idle
    /\ \E b \in Bonds, y \in Yields :
          /\ call' = [fn |-> "macaulay_duration", bond |-> b, yc |-> y]
          /\ out' \in macaulay_duration(BondOf(b), Dec(y))

CallModifiedMacaulayDuration ==
    /\ Idle
    /\ \E b \in Bonds, y \in Yields :
          /\ call' = [fn |-> "modified_macaulay_duration", bond |-> b, yc |-> y]
          /\ out' \in modified_macaulay_duration(BondOf(b), Dec(y))

CallBondStats ==
    /\ Idle
    /\ \E b \in Bonds, y \in Yields :
          /\ call' = [fn |-> "bond_stats", bond |-> b, yc |-> y]
          /\ out' \in bond_stats(BondOf(b), Dec(y))

Next ==
    \/ CallSimpleToComp
    \/ CallCompToSimple
    \/ CallPvSimple
    \/ CallBondSPrice
    \/ CallBondCPrice
    \/ CallMacaulayDuration
    \/ CallModifiedMacaulayDuration
    \/ CallBondStats

Spec == Init /\ [][Next]_vars

(* ---- properties ---- *)
\* comparisons of doubles: the sign of the (rounded) difference, which is exact enough
\* to order any two doubles
FSign(d) == IF FIsZero(d) THEN 0 ELSE IF d.s = 1 THEN -1 ELSE 1
FCmp(a, b) == FSign(FSub(a, b))
FLt(a, b) == FCmp(a, b) < 0
FLe(a, b) == FCmp(a, b) <= 0
FAbs(a) == [a EXCEPT !.s = 0]
\* the call has ended with a number handed back (inf and nan are numbers to the caller)
HandsBackNumber == out.tag = "return"
\* face value, tenor and frequency of the bond literal b are all positive
PositiveBond(b) == b.N[1] > 0 /\ b.T[1] > 0 /\ b.freq[1] > 0
\* truncate(tenor*frequency) over the rationals, for a bond with positive terms
ExactPayments(b) == (b.T[1] * b.freq[1]) \div (b.T[2] * b.freq[2])
\* tenor*frequency is a positive integer
WholePeriods(b) ==
    PositiveBond(b) /\ ExactPayments(b) >= 1 /\ (b.T[1] * b.freq[1]) % (b.T[2] * b.freq[2]) = 0
\* a is b up to the rounding of three operations: |a - b| <= 2^-51 * |b|
WithinRounding(a, b) ==
    FLe(FAbs(FSub(a, b)), FMul(FAbs(b), [s |-> 0, m |-> <<0, 0, 0, 128>>, e |-> -103]))
\* the bond and the curve of the worked example
ExampleBond == [N |-> <<100, 1>>, T |-> <<4, 2>>, cpn |-> <<6, 100>>, freq |-> <<1, 1>>]
ExampleCurve == <<(<<5, 100>>), (<<55, 1000>>)>>
ExampleCalled ==
    call.fn = "bond_s_price" /\ call.bond = ExampleBond /\ call.zc_rates = ExampleCurve

\* C1: bond_s_price called with a curve whose length differs from int(T*freq_per_year)
\* never hands back a price; it ends in an error.
C1_MismatchedCurveRaises ==
    (/\ call.fn = "bond_s_price"
     /\ Len(call.zc_rates) # nbre_payments(Dec(call.bond.T), Dec(call.bond.freq)))
    => ~HandsBackNumber
\* a curve longer than the schedule was priced from its first entries
C1_LongerCurvePriced ==
    /\ call.fn = "bond_s_price"
    /\ PositiveBond(call.bond)
    /\ Len(call.zc_rates) > nbre_payments(Dec(call.bond.T), Dec(call.bond.freq))
    /\ out.tag = "return"
    /\ Len(out.loc.zc_prices) < Len(call.zc_rates)

\* C2: bond_s_price, bond_c_price and macaulay_duration never hand back a number for a
\* bond whose face value, tenor or frequency is zero or negative.
C2_NonPositiveBondRaises ==
    (/\ call.fn \in {"bond_s_price", "bond_c_price", "macaulay_duration"}
     /\ ~PositiveBond(call.bond))
    => ~HandsBackNumber
\* a bond of negative face value was priced
C2_NegativeFacePriced ==
    /\ call.fn = "bond_c_price"
    /\ call.bond.N[1] < 0
    /\ out.tag = "return"
    /\ out.val.s = 1

\* C3 (as amended): for face 100, tenor 2, coupon 0.06, one payment a year and the
\* curve [0.05, 0.055], bond_s_price has cash flows 6 and 106 and returns
\* 6/1.05 + 106/(1+0.055*2) rounded to 4 decimals, which is 101.2098.
C3_ExamplePrice ==
    ExampleCalled =>
        /\ out.tag = "return"
        /\ out.loc.CFs = <<FromInt(6), FromInt(106)>>
        /\ out.val = np_round4(FAdd(FDiv(FromInt(6), Lit(105, 100)),
                                    FDiv(FromInt(106), FAdd(One, FMul(Lit(55, 1000), FromInt(2))))))
        /\ out.val = Lit(1012098, 10000)
\* C3 as stated: the example's price is 100.5134
C3_ExamplePriceAsStated ==
    ExampleCalled => (out.tag = "return" /\ out.val = Lit(1005134, 10000))
\* the example was priced
C3_ExampleReturned == ExampleCalled /\ out.tag = "return"

\* the price as the sum of amounts[i] / (1 + z[i]*(i+1)/freq), each amount cpn_ann*N/freq
\* with N added to the last, rounded once
C4_Amount(b, i, n) ==
    IF i < n THEN FDiv(FMul(Dec(b.cpn), Dec(b.N)), Dec(b.freq))
    ELSE FAdd(FDiv(FMul(Dec(b.cpn), Dec(b.N)), Dec(b.freq)), Dec(b.N))
C4_Term(b, z, i, n) ==
    FDiv(C4_Amount(b, i, n), FAdd(One, FDiv(FMul(Dec(z[i]), FromInt(i)), Dec(b.freq))))
C4_Price(b, z) == np_round4(Sum(Series([i \in 1..Len(z) |-> C4_Term(b, z, i, Len(z))])))
C4_FullCurve ==
    /\ call.fn = "bond_s_price"
    /\ Len(call.zc_rates) >= 1
    /\ Len(call.zc_rates) = nbre_payments(Dec(call.bond.T), Dec(call.bond.freq))
    /\ \A i \in 1..Len(call.zc_rates) :
          ~FIsZero(FAdd(One, FDiv(FMul(Dec(call.zc_rates[i]), FromInt(i)), Dec(call.bond.freq))))
\* C4: with n = int(T*freq) >= 1, a curve z of length n and no zero denominator,
\* bond_s_price returns round4(sum of amounts[i] / (1 + z[i]*(i+1)/freq)), amounts being
\* cpn_ann*N/freq with N added to the last; the sum is rounded once, its terms are not.
C4_PriceIsRoundedSum ==
    C4_FullCurve => (out.tag = "return" /\ out.val = C4_Price(call.bond, call.zc_rates))
\* a two-payment bond priced where rounding each term would give another price
C4_TermsNotRounded ==
    /\ C4_FullCurve
    /\ out.tag = "return"
    /\ Len(out.loc.CFs) = 2
    /\ out.val # np_round4(FAdd(np_round4(FMul(out.loc.CFs[1], out.loc.zc_prices[1])),
                                np_round4(FMul(out.loc.CFs[2], out.loc.zc_prices[2]))))

\* bond_c_price or macaulay_duration called for a bond with positive terms
C5_Case ==
    /\ call.fn \in {"bond_c_price", "macaulay_duration"}
    /\ PositiveBond(call.bond)
\* C5 (as amended): for a bond with positive face, tenor and frequency, bond_c_price and
\* macaulay_duration build int(tenor*frequency) cash flows, the product taken in binary64
\* (on the bonds here it truncates like the exact product; with no cash flow the call
\* stops at CFs.iloc[-1]); the timeline is as long as the cash flows and strictly
\* increasing, its entry i is the double (i+1)*(1/frequency), which is (i+1)/frequency up
\* to rounding (relative 2^-51), and its last entry is <= tenor or above it by rounding.
C5_ScheduleUpToRounding ==
    C5_Case =>
        /\ Len(out.loc.CFs) = int(FMul(Dec(call.bond.T), Dec(call.bond.freq)))
        /\ Len(out.loc.CFs) = ExactPayments(call.bond)
        /\ (ExactPayments(call.bond) = 0) = (out.tag = "IndexError")
        /\ ExactPayments(call.bond) >= 1 =>
              /\ Len(out.loc.tl) = Len(out.loc.CFs)
              /\ \A i \in 1..Len(out.loc.tl) :
                    /\ out.loc.tl[i] = FMul(FromInt(i), FDiv(One, Dec(call.bond.freq)))
                    /\ WithinRounding(out.loc.tl[i], FDiv(FromInt(i), Dec(call.bond.freq)))
              /\ \A i \in 1..(Len(out.loc.tl) - 1) : FLt(out.loc.tl[i], out.loc.tl[i + 1])
              /\ \/ FLe(out.loc.tl[Len(out.loc.tl)], Dec(call.bond.T))
                 \/ WithinRounding(out.loc.tl[Len(out.loc.tl)], Dec(call.bond.T))
\* C5 as stated: truncate(tenor*frequency) cash flows, as many payment times, payment
\* time i equal to (i+1)/frequency, the times strictly increasing, the last <= tenor
C5_ScheduleAsStated ==
    C5_Case =>
        /\ Len(out.loc.CFs) = ExactPayments(call.bond)
        /\ ExactPayments(call.bond) >= 1 =>
              /\ Len(out.loc.tl) = Len(out.loc.CFs)
              /\ \A i \in 1..Len(out.loc.tl) :
                    out.loc.tl[i] = FDiv(FromInt(i), Dec(call.bond.freq))
              /\ \A i \in 1..(Len(out.loc.tl) - 1) : FLt(out.loc.tl[i], out.loc.tl[i + 1])
              /\ FLe(out.loc.tl[Len(out.loc.tl)], Dec(call.bond.T))
\* a schedule whose last payment time is the double above the tenor, and not (i+1)/frequency
C5_LastTimeAboveTenor ==
    /\ C5_Case
    /\ out.tag = "return"
    /\ FLt(Dec(call.bond.T), out.loc.tl[Len(out.loc.tl)])
    /\ out.loc.tl[Len(out.loc.tl)] # FDiv(FromInt(Len(out.loc.tl)), Dec(call.bond.freq))

\* C6: for a zero-coupon bond (positive face, tenor*frequency a positive integer) and
\* any yield, macaulay_duration returns the tenor (to the 4 decimals it rounds to).
C6_ZeroCouponDurationIsTenor ==
    (/\ call.fn = "macaulay_duration"
     /\ WholePeriods(call.bond)
     /\ call.bond.cpn[1] = 0)
    => (out.tag = "return" /\ out.val = np_round4(Dec(call.bond.T)))
\* a zero-coupon bond whose duration came out below its tenor
C6_ZeroCouponBelowTenor ==
    /\ call.fn = "macaulay_duration"
    /\ WholePeriods(call.bond)
    /\ call.bond.cpn[1] = 0
    /\ out.tag = "return"
    /\ FLt(out.val, np_round4(Dec(call.bond.T)))

\* modified_macaulay_duration has returned for a positive bond, coupon and yield
C7_Case ==
    /\ call.fn = "modified_macaulay_duration"
    /\ PositiveBond(call.bond)
    /\ call.bond.cpn[1] > 0
    /\ call.yc[1] > 0
    /\ out.tag = "return"
\* C7 (as amended): for a bond with positive coupon and a positive yield, the value
\* returned by modified_macaulay_duration is the Macaulay duration divided by
\* 1 + yc/freq, rounded to 4 decimals, and is at most the Macaulay duration.
C7_ModifiedAtMostMacaulay ==
    C7_Case =>
        /\ out.val = np_round4(FDiv(out.loc.macaulay_duration,
                                    FAdd(One, FDiv(Dec(call.yc), Dec(call.bond.freq)))))
        /\ FLe(out.val, out.loc.macaulay_duration)
\* C7 as stated: strictly less
C7_ModifiedBelowMacaulay == C7_Case => FLt(out.val, out.loc.macaulay_duration)
\* the two durations round to the same 4 decimals
C7_ModifiedEqualsMacaulay == C7_Case /\ out.val = out.loc.macaulay_duration

\* macaulay_duration called for a positive coupon, whole periods and a positive yield
C8_Case ==
    /\ call.fn = "macaulay_duration"
    /\ WholePeriods(call.bond)
    /\ call.bond.cpn[1] > 0
    /\ call.yc[1] > 0
C9_StatsPriceRounded ==
    (call.fn = "bond_stats" /\ out.tag = "return")
    => out.loc.Price = np_round4(out.loc.Price)
\* stats whose durations are 4-decimal values and whose price is not
C9_StatsPriceUnrounded ==
    /\ call.fn = "bond_stats"
    /\ out.tag = "return"
    /\ out.loc.MacaulayDuration = np_round4(out.loc.MacaulayDuration)
    /\ out.loc.ModifiedMacaulay = np_round4(out.loc.ModifiedMacaulay)
    /\ out.loc.Price # np_round4(out.loc.Price)

\* 1e-9, and the distance of the round trip from the rate it started from
Tolerance == Lit(1, 1000000000)
RoundTripError == FAbs(FSub(out.val, Dec(call.r)))
\* the conversion back has been called, for a rate and horizon with 1 + r*t > 0 (t*f > 0
\* in every call)
C10_Case ==
    /\ call.fn = "comp_to_simple"
    /\ FLt(FZero, FAdd(One, FMul(Dec(call.r), Dec(call.t))))
\* rates, horizons and frequencies of ordinary size:
\* |r| <= 1, 1/12 <= t <= 30, 1 <= f <= 365, 1 + r*t >= 1/2
C10_OrdinarySize ==
    /\ call.fn = "comp_to_simple"
    /\ FLe(FAbs(Dec(call.r)), One)
    /\ FLe(Lit(1, 12), Dec(call.t)) /\ FLe(Dec(call.t), FromInt(30))
    /\ FLe(One, Dec(call.freq)) /\ FLe(Dec(call.freq), FromInt(365))
    /\ FLe(Lit(1, 2), FAdd(One, FMul(Dec(call.r), Dec(call.t))))
\* C10 (as amended): comp_to_simple(simple_to_comp(r, t, f), t, f) reproduces r within
\* 1e-9 for |r| <= 1, 1/12 <= t <= 30, 1 <= f <= 365 and 1 + r*t >= 1/2.
C10_RoundTripOrdinarySize ==
    C10_OrdinarySize => (out.tag = "return" /\ FLe(RoundTripError, Tolerance))
\* C10 as stated: within 1e-9 whenever t*f > 0 and 1 + r*t > 0
C10_RoundTripAbsolute ==
    C10_Case => (out.tag = "return" /\ FLe(RoundTripError, Tolerance))
\* a round trip of ordinary size that came back rounded, within 1e-9
C10_RoundTripRounded ==
    /\ C10_OrdinarySize
    /\ out.tag = "return"
    /\ ~FIsZero(RoundTripError)
    /\ FLe(RoundTripError, Tolerance)

====
